---------------------------- MODULE Spec2Model ----------------------------
(***************************************************************************)
(* A model of src/src/compile/algebra.rs: the symbolic kernel (Expr, Term, *)
(* Base), the abstract interpreter AlgebraEnv, the inverter                *)
(* algebraic_inverse, derivative, integral and the lowering expr_to_node.  *)
(*                                                                         *)
(* Numbers.  f64 is modelled by exact rationals <<n, d>> in lowest terms   *)
(* with d > 0, and by NaN == <<0, 0>>.  Complex is a pair of such numbers. *)
(* Rounding and overflow of f64 are not modelled.  A result the rationals  *)
(* cannot hold (an irrational root or logarithm, a division by zero) is    *)
(* NaN; the analyser is only fed programs whose coefficients stay finite   *)
(* (see Representable).                                                    *)
(***************************************************************************)
EXTENDS Integers, Sequences, FiniteSets, TLC

(***************************************************************************)
(* Bounds of the model.                                                    *)
(***************************************************************************)
\* longest freely generated program
MaxNodes == 2
\* inputs x of the round trip are the integers 0 .. MaxX and some fractions
MaxX == 3
\* largest |power| of a lowered expression whose IR is run on an input
MaxPower == 4

(***************************************************************************)
(* f64 as exact rationals.                                                 *)
(***************************************************************************)
Abs(n) == IF n < 0 THEN -n ELSE n

RECURSIVE GCD(_, _)
GCD(a, b) == IF b = 0 THEN a ELSE GCD(b, a % b)

NaN == <<0, 0>>

Rat(n, d) ==
    IF d = 0 THEN NaN
    ELSE LET g == GCD(Abs(n), Abs(d))
             s == IF d < 0 THEN -1 ELSE 1
         IN  <<(s * n) \div g, (s * d) \div g>>

R(n) == <<n, 1>>
IsNaN(r) == r[2] = 0

RNeg(a) == IF IsNaN(a) THEN NaN ELSE <<-a[1], a[2]>>
RAdd(a, b) ==
    IF IsNaN(a) \/ IsNaN(b) THEN NaN
    ELSE Rat(a[1] * b[2] + b[1] * a[2], a[2] * b[2])
RSub(a, b) == RAdd(a, RNeg(b))
RMul(a, b) ==
    IF IsNaN(a) \/ IsNaN(b) THEN NaN ELSE Rat(a[1] * b[1], a[2] * b[2])
RDiv(a, b) ==
    IF IsNaN(a) \/ IsNaN(b) THEN NaN ELSE Rat(a[1] * b[2], a[2] * b[1])
\* f64 comparisons: false as soon as one side is NaN
REq(a, b) == ~IsNaN(a) /\ ~IsNaN(b) /\ a = b
RLt(a, b) == ~IsNaN(a) /\ ~IsNaN(b) /\ a[1] * b[2] < b[1] * a[2]
RLe(a, b) == RLt(a, b) \/ REq(a, b)
\* f64::max: the other operand when one is NaN
RMax(a, b) == IF IsNaN(a) THEN b ELSE IF IsNaN(b) THEN a
              ELSE IF RLt(a, b) THEN b ELSE a
IsInt(r) == r[2] = 1

IsSquare(n) == n >= 0 /\ \E k \in 0..n : k * k = n
ISqrt(n) == CHOOSE k \in 0..n : k * k = n
\* f64::sqrt: NaN below zero; NaN too where the root is irrational
RSqrt(a) ==
    IF IsNaN(a) \/ a[1] < 0 THEN NaN
    ELSE IF IsSquare(a[1]) /\ IsSquare(a[2]) THEN <<ISqrt(a[1]), ISqrt(a[2])>>
    ELSE NaN

(***************************************************************************)
(* crate::Complex: a pair (re, im) of f64.                                 *)
(***************************************************************************)
Cx(re, im) == [re |-> re, im |-> im]
ZERO == Cx(R(0), R(0))
ONE == Cx(R(1), R(0))
CI == Cx(R(0), R(1))
CReal(r) == Cx(r, R(0))
CNaN == Cx(NaN, NaN)

CFinite(c) == c.re[2] # 0 /\ c.im[2] # 0
CFix(c) == IF CFinite(c) THEN c ELSE CNaN
CNeg(c) == Cx(RNeg(c.re), RNeg(c.im))
CAdd(a, b) == Cx(RAdd(a.re, b.re), RAdd(a.im, b.im))
CSub(a, b) == Cx(RSub(a.re, b.re), RSub(a.im, b.im))
\* a NaN in either operand reaches both parts of a product and of a quotient
CMul(a, b) ==
    IF ~CFinite(a) \/ ~CFinite(b) THEN CNaN
    ELSE Cx(RSub(RMul(a.re, b.re), RMul(a.im, b.im)),
            RAdd(RMul(a.re, b.im), RMul(a.im, b.re)))
CDiv(a, b) ==
    IF ~CFinite(a) \/ ~CFinite(b) THEN CNaN
    ELSE LET m == RAdd(RMul(b.re, b.re), RMul(b.im, b.im))
         IN  CFix(Cx(RDiv(RAdd(RMul(a.re, b.re), RMul(a.im, b.im)), m),
                     RDiv(RSub(RMul(a.im, b.re), RMul(a.re, b.im)), m)))
\* Complex == Complex
CEq(a, b) == REq(a.re, b.re) /\ REq(a.im, b.im)
\* Complex::abs() > 1.0, decided on the squares
CAbsGt1(c) == RLt(R(1), RAdd(RMul(c.re, c.re), RMul(c.im, c.im)))
\* Complex::into_real: the real part iff the imaginary part is exactly zero
IsRealC(c) == REq(c.im, R(0))
IntoRealOrNaN(c) == IF IsRealC(c) THEN c.re ELSE NaN
\* Complex::sqrt, the principal root
CSqrt(c) ==
    IF ~CFinite(c) THEN CNaN
    ELSE IF c.im = R(0)
    THEN IF RLe(R(0), c.re) THEN CFix(Cx(RSqrt(c.re), R(0)))
         ELSE CFix(Cx(R(0), RSqrt(RNeg(c.re))))
    ELSE LET m == RSqrt(RAdd(RMul(c.re, c.re), RMul(c.im, c.im)))
             p == RSqrt(RDiv(RAdd(m, c.re), R(2)))
             q == RSqrt(RDiv(RSub(m, c.re), R(2)))
         IN  CFix(Cx(p, IF RLt(c.im, R(0)) THEN RNeg(q) ELSE q))

RECURSIVE CPowNat(_, _)
\* c^k by repeated squaring
CPowNat(c, k) ==
    IF k = 0 THEN ONE
    ELSE IF k % 2 = 1 THEN CMul(c, CPowNat(c, k - 1))
    ELSE LET h == CPowNat(c, k \div 2) IN CMul(h, h)
\* Complex::powf(f64): exact for integer exponents and for 1/2
CPowf(c, p) ==
    IF ~CFinite(c) \/ IsNaN(p) THEN CNaN
    ELSE IF IsInt(p)
    THEN IF p[1] >= 0 THEN CPowNat(c, p[1])
         ELSE CDiv(ONE, CPowNat(c, -p[1]))
    ELSE IF c = ONE THEN ONE
    ELSE IF p = <<1, 2>> THEN CSqrt(c)
    ELSE CNaN
\* Complex::log(f64): exact where c is an integer power of the base
LogRange == -3..3
CLog(c, base) ==
    IF ~CFinite(c) \/ IsNaN(base) \/ ~IsRealC(c) THEN CNaN
    ELSE IF ~RLt(R(0), base) \/ base = R(1) THEN CNaN
    ELSE IF \E k \in LogRange : CPowf(CReal(base), R(k)) = c
    THEN CReal(R(CHOOSE k \in LogRange : CPowf(CReal(base), R(k)) = c))
    ELSE CNaN
\* the derived order of Complex: re, then im
CCmp(a, b) ==
    IF RLt(a.re, b.re) THEN -1 ELSE IF RLt(b.re, a.re) THEN 1
    ELSE IF RLt(a.im, b.im) THEN -1 ELSE IF RLt(b.im, a.im) THEN 1 ELSE 0

RCmp(a, b) == IF RLt(a, b) THEN -1 ELSE IF RLt(b, a) THEN 1 ELSE 0

(***************************************************************************)
(* Base, Term, Expr.  A Base is <<>> for Base::X and <<e>> for             *)
(* Base::Expr(e).  A Term is [base, power].  An Expr, a BTreeMap from Term *)
(* to Complex, is the sequence of its entries [base, power, coef] in key   *)
(* order, which is the order the code iterates it in.                      *)
(***************************************************************************)
BaseX == <<>>
BaseExpr(e) == <<e>>
Term(base, power) == [base |-> base, power |-> power]
Entry(term, coef) == [base |-> term.base, power |-> term.power, coef |-> coef]
TermOf(en) == [base |-> en.base, power |-> en.power]

RECURSIVE ExprCmpFrom(_, _, _)
RECURSIVE TermCmp(_, _)
\* impl Ord for Expr: by length, then the first unequal (term, coefficient)
ExprCmp(e, f) ==
    IF Len(e) < Len(f) THEN -1 ELSE IF Len(e) > Len(f) THEN 1
    ELSE ExprCmpFrom(e, f, 1)
ExprCmpFrom(e, f, i) ==
    IF i > Len(e) THEN 0
    ELSE LET t == TermCmp(TermOf(e[i]), TermOf(f[i]))
             o == IF t # 0 THEN t ELSE CCmp(e[i].coef, f[i].coef)
         IN  IF o # 0 THEN o ELSE ExprCmpFrom(e, f, i + 1)
\* derived Ord for Base: X < Expr(_)
BaseCmp(a, b) ==
    IF a = BaseX THEN (IF b = BaseX THEN 0 ELSE -1)
    ELSE IF b = BaseX THEN 1 ELSE ExprCmp(a[1], b[1])
\* impl Ord for Term: base, then power
TermCmp(s, t) ==
    LET c == BaseCmp(s.base, t.base)
    IN  IF c # 0 THEN c ELSE RCmp(s.power, t.power)

\* BTreeMap lookups
Below(e, term) == {i \in 1..Len(e) : TermCmp(TermOf(e[i]), term) < 0}
HasTerm(e, term) == \E i \in 1..Len(e) : TermCmp(TermOf(e[i]), term) = 0
IndexOf(e, term) == CHOOSE i \in 1..Len(e) : TermCmp(TermOf(e[i]), term) = 0
\* BTreeMap::insert: replaces the coefficient of a key already there
MapInsert(e, term, coef) ==
    IF HasTerm(e, term)
    THEN [e EXCEPT ![IndexOf(e, term)].coef = coef]
    ELSE LET k == Cardinality(Below(e, term))
         IN  SubSeq(e, 1, k) \o <<Entry(term, coef)>> \o SubSeq(e, k + 1, Len(e))
\* *map.entry(term).or_default() += coef
MapAdd(e, term, coef) ==
    IF HasTerm(e, term)
    THEN [e EXCEPT ![IndexOf(e, term)].coef = CAdd(@, coef)]
    ELSE MapInsert(e, term, CAdd(ZERO, coef))
\* BTreeMap::remove: the coefficient removed (found) and the map left
MapRemove(e, term) ==
    IF HasTerm(e, term)
    THEN LET k == IndexOf(e, term)
         IN  [found |-> TRUE, coef |-> e[k].coef,
              rest |-> SubSeq(e, 1, k - 1) \o SubSeq(e, k + 1, Len(e))]
    ELSE [found |-> FALSE, coef |-> ZERO, rest |-> e]

RECURSIVE AddAll(_, _)
AddAll(e, entries) ==
    IF entries = <<>> THEN e
    ELSE IF e = <<>>
    THEN AddAll(<<Entry(TermOf(entries[1]), CAdd(ZERO, entries[1].coef))>>,
                Tail(entries))
    ELSE AddAll(MapAdd(e, TermOf(entries[1]), entries[1].coef), Tail(entries))
RECURSIVE Collect(_, _)
\* Iterator::collect into a BTreeMap: a later equal key replaces an earlier
Collect(e, entries) ==
    IF entries = <<>> THEN e
    ELSE IF e = <<>> THEN Collect(<<entries[1]>>, Tail(entries))
    ELSE Collect(MapInsert(e, TermOf(entries[1]), entries[1].coef), Tail(entries))

\* impl From<Term> for Expr, impl From<Complex> for Expr
ExprFromTerm(term) == <<Entry(term, ONE)>>
ExprFromComplex(c) == <<Entry(Term(BaseX, R(0)), c)>>
ExprX == ExprFromTerm(Term(BaseX, R(1)))

\* impl ops::Neg for Expr
ExprNeg(e) == [i \in 1..Len(e) |-> [e[i] EXCEPT !.coef = CNeg(@)]]
\* impl ops::Add for Expr
ExprAdd(self, rhs) == AddAll(self, rhs)
\* impl ops::Sub for Expr
ExprSub(self, rhs) == AddAll(self, ExprNeg(rhs))

RECURSIVE ExprMul(_, _)
RECURSIVE MulPairs(_, _, _)
\* what one (ta, ca) x (tb, cb) pair adds to the product
MulPair(ea, eb) ==
    IF ea.base = BaseX /\ eb.base = BaseX
    THEN <<Entry(Term(BaseX, RAdd(ea.power, eb.power)), CMul(ea.coef, eb.coef))>>
    ELSE IF ea.base = BaseX
    THEN \* the inner loop's cb shadows the outer one
         LET ex == eb.base[1]
         IN  [i \in 1..Len(ex) |->
                Entry(Term(ex[i].base, RAdd(ex[i].power, ea.power)),
                      CMul(ea.coef, ex[i].coef))]
    ELSE IF eb.base = BaseX
    THEN \* the inner loop's ca shadows the outer one
         LET ex == ea.base[1]
         IN  [i \in 1..Len(ex) |->
                Entry(Term(ex[i].base, RAdd(ex[i].power, eb.power)),
                      CMul(ex[i].coef, eb.coef))]
    ELSE LET prod == ExprMul(ea.base[1], eb.base[1])
         IN  [i \in 1..Len(prod) |->
                [prod[i] EXCEPT !.coef = CMul(CMul(@, ea.coef), eb.coef)]]
\* the pairs in loop order: ta outer, tb inner; k counts them from 0
MulPairs(self, rhs, k) ==
    IF k >= Len(self) * Len(rhs) THEN <<>>
    ELSE MulPair(self[(k \div Len(rhs)) + 1], rhs[(k % Len(rhs)) + 1])
            \o MulPairs(self, rhs, k + 1)
\* impl ops::Mul for Expr
ExprMul(self, rhs) == AddAll(<<>>, MulPairs(self, rhs, 0))

RECURSIVE ExprDiv(_, _)
RECURSIVE DivPairs(_, _, _)
DivPair(ea, eb) ==
    IF ea.base = BaseX /\ eb.base = BaseX
    THEN <<Entry(Term(BaseX, RSub(ea.power, eb.power)), CDiv(ea.coef, eb.coef))>>
    ELSE IF ea.base = BaseX
    THEN LET ex == eb.base[1]
         IN  [i \in 1..Len(ex) |->
                Entry(Term(ex[i].base, RAdd(ex[i].power, ea.power)),
                      CDiv(ea.coef, ex[i].coef))]
    ELSE IF eb.base = BaseX
    THEN LET ex == ea.base[1]
         IN  [i \in 1..Len(ex) |->
                Entry(Term(ex[i].base, RAdd(ex[i].power, eb.power)),
                      CDiv(ex[i].coef, eb.coef))]
    ELSE LET prod == ExprDiv(ea.base[1], eb.base[1])
         IN  [i \in 1..Len(prod) |->
                [prod[i] EXCEPT !.coef = CDiv(CMul(@, ea.coef), eb.coef)]]
DivPairs(self, rhs, k) ==
    IF k >= Len(self) * Len(rhs) THEN <<>>
    ELSE DivPair(self[(k \div Len(rhs)) + 1], rhs[(k % Len(rhs)) + 1])
            \o DivPairs(self, rhs, k + 1)
\* impl ops::Div for Expr
ExprDiv(self, rhs) == AddAll(<<>>, DivPairs(self, rhs, 0))

RECURSIVE is_complex(_)
\* Expr::is_complex: power != 0.0 || power != 1.0 is true of every term
is_complex(e) ==
    \E i \in 1..Len(e) :
        \/ ~REq(e[i].power, R(0))
        \/ ~REq(e[i].power, R(1))
        \/ (IF e[i].base = BaseX THEN FALSE ELSE is_complex(e[i].base[1]))
\* Expr::single, Expr::as_constant
IsConstant(e) == Len(e) = 1 /\ e[1].base = BaseX /\ REq(e[1].power, R(0))
as_constant(e) == e[1].coef
\* Expr::pow, defined when power is a real constant
PowDefined(power) == IsConstant(power) /\ IsRealC(as_constant(power))
ExprPow(self, power) ==
    LET p == as_constant(power).re
    IN  Collect(<<>>, [i \in 1..Len(self) |->
            Entry(Term(self[i].base, RMul(self[i].power, p)),
                  CPowf(self[i].coef, p))])
\* Expr::log, defined when base is a real constant
ExprLog(self, base) ==
    LET b == as_constant(base).re
    IN  Collect(<<>>, [i \in 1..Len(self) |->
            Entry(Term(self[i].base, RDiv(self[i].power, b)),
                  CLog(self[i].coef, b))])
\* the Sqrt arm of node_impl
ExprSqrt(a) ==
    IF Len(a) <= 1
    THEN Collect(<<>>, [i \in 1..Len(a) |->
            Entry(Term(a[i].base, RMul(a[i].power, <<1, 2>>)), CSqrt(a[i].coef))])
    ELSE ExprFromTerm(Term(BaseExpr(a), <<1, 2>>))

RECURSIVE ExprFinite(_)
\* every power and coefficient of e, nested ones too, is a rational
ExprFinite(e) ==
    \A i \in 1..Len(e) :
        /\ ~IsNaN(e[i].power)
        /\ CFinite(e[i].coef)
        /\ (IF e[i].base = BaseX THEN TRUE ELSE ExprFinite(e[i].base[1]))

(***************************************************************************)
(* The host IR.  A Node is a record [op, prim, val, args, span]: op is the *)
(* variant (Run, Call, Push, Prim, ImplPrim, Mod, ImplMod, CustomInverse,  *)
(* CopyToUnder, PushUnder, PopUnder, or another one), prim the primitive,  *)
(* the combinator or the called function, val the pushed Value, args the   *)
(* children (Nodes of a Run, SigNodes [node, sig] of a Mod), span the span *)
(* (NoSpan where Node::span() is None).  A Value is [kind, rank, data]:    *)
(* data is the array's first element.                                      *)
(***************************************************************************)
NoSpan == -1
\* asm.spans.len()
SpansLen == 1
NoVal == [kind |-> "", rank |-> 0, data |-> ZERO]
Value(kind, rank, data) == [kind |-> kind, rank |-> rank, data |-> data]
NumVal(r) == Value("Num", 0, CReal(r))
ComplexVal(c) == Value("Complex", 0, c)
MkNode(op, prim, val, args, span) ==
    [op |-> op, prim |-> prim, val |-> val, args |-> args, span |-> span]
Prim(prim, span) == MkNode("Prim", prim, NoVal, <<>>, span)
\* Node::new_push of an f64 (a Num value) and of a Complex (a Complex value)
Push(val) == MkNode("Push", "", val, <<>>, NoSpan)
PushNum(r) == Push(NumVal(r))
PushComplex(c) == Push(ComplexVal(c))
Mod(prim, args, span) == MkNode("Mod", prim, NoVal, args, span)
Run(nodes) == MkNode("Run", "", NoVal, nodes, NoSpan)
Sig(args, outputs) == [args |-> args, outputs |-> outputs]
SigNode(node, sig) == [node |-> node, sig |-> sig]

\* the functions of the Assembly that a Call can name
Asm(f) == IF f = "negate" THEN Run(<<Prim("Neg", 0)>>)
          ELSE Run(<<Prim("Dup", 0), Prim("Mul", 0)>>)

(***************************************************************************)
(* AlgebraEnv.  stack has its top at the end.  err is "" until a node      *)
(* fails, and then the AlgebraError; every step below leaves a failed      *)
(* environment as it is, which is the ? of the code.                       *)
(***************************************************************************)
\* AlgebraEnv::new
NewEnv ==
    [stack |-> <<ExprX>>, call_stack |-> <<>>, handled |-> 0,
     any_complex |-> FALSE, err |-> ""]
Ok(env) == env.err = ""
Fail(env, e) == IF Ok(env) THEN [env EXCEPT !.err = e] ELSE env
\* the i-th value that i pops in a row return: 1 is the top
Top(env, i) == env.stack[Len(env.stack) - i + 1]
\* k times AlgebraEnv::pop: on a stack of fewer than k entries the pops that
\* succeed have emptied it when the next one fails
PopK(env, k) ==
    IF ~Ok(env) THEN env
    ELSE IF Len(env.stack) >= k
    THEN [env EXCEPT !.stack = SubSeq(@, 1, Len(@) - k)]
    ELSE [env EXCEPT !.stack = <<>>, !.err = "TooManyVariables"]
PushE(env, x) == IF Ok(env) THEN [env EXCEPT !.stack = Append(@, x)] ELSE env
PushAll(env, xs) == IF Ok(env) THEN [env EXCEPT !.stack = @ \o xs] ELSE env
Count(env) == IF Ok(env) THEN [env EXCEPT !.handled = @ + 1] ELSE env
\* the k values k pops return, first popped first, and the same reversed
Popped(env, k) == [i \in 1..k |-> Top(env, i)]
Rev(xs) == [i \in 1..Len(xs) |-> xs[Len(xs) - i + 1]]

\* the Prim arms of node_impl
PrimImpl(env, prim) ==
    LET e1 == PopK(env, 1)
        e2 == PopK(env, 2)
        a == Top(env, 1)
        b == Top(env, 2)
    IN  CASE prim = "Identity" -> PushE(e1, a)
          [] prim = "Pop" -> e1
          [] prim = "Dup" -> PushAll(e1, <<a, a>>)
          [] prim = "Flip" -> PushAll(e2, <<a, b>>)
          [] prim = "Over" -> PushAll(e2, <<b, a, b>>)
          [] prim = "Neg" -> Count(PushE(e1, ExprNeg(a)))
          [] prim = "Not" ->
                Count(PushE(e1, ExprSub(ExprFromComplex(ONE), a)))
          [] prim = "Sqrt" -> Count(PushE(e1, ExprSqrt(a)))
          [] prim = "Add" -> Count(PushE(e2, ExprAdd(b, a)))
          [] prim = "Sub" -> Count(PushE(e2, ExprSub(b, a)))
          [] prim = "Mul" -> Count(PushE(e2, ExprMul(b, a)))
          [] prim = "Div" -> Count(PushE(e2, ExprDiv(b, a)))
          [] prim = "Pow" ->
                IF ~Ok(e2) THEN e2
                ELSE IF ~PowDefined(a) THEN Fail(e2, "NonScalar")
                ELSE Count(PushE(e2, ExprPow(b, a)))
          [] prim = "Log" ->
                IF ~Ok(e2) THEN e2
                ELSE IF ~PowDefined(a) THEN Fail(e2, "NonScalar")
                ELSE Count(PushE(e2, ExprLog(b, a)))
          [] prim = "Complex" ->
                IF ~Ok(e2) THEN e2
                ELSE [(IF IsConstant(a) /\ IsConstant(b)
                       THEN PushE(e2, ExprFromComplex(
                                CAdd(CMul(as_constant(a), CI), as_constant(b))))
                       ELSE PushE(e2, ExprAdd(b, ExprMul(a, ExprFromComplex(CI)))))
                      EXCEPT !.any_complex = TRUE]
          [] OTHER -> Fail(env, "NotSupported(" \o prim \o ")")

\* the Push arms of node_impl
PushImpl(env, val) ==
    IF val.rank > 0 THEN Fail(env, "NonScalar")
    ELSE CASE val.kind = "Num" -> PushE(env, ExprFromComplex(val.data))
           [] val.kind = "Byte" -> PushE(env, ExprFromComplex(val.data))
           [] val.kind = "Complex" ->
                [PushE(env, ExprFromComplex(val.data)) EXCEPT !.any_complex = TRUE]
           [] OTHER -> Fail(env, "NonReal")

RECURSIVE node(_, _)
RECURSIVE node_impl(_, _)
RECURSIVE RunAll(_, _)
\* for node in nodes { self.node(node)?; }
RunAll(env, nodes) ==
    IF ~Ok(env) \/ nodes = <<>> THEN env
    ELSE RunAll(node(env, nodes[1]), Tail(nodes))

\* the Mod arms of node_impl
ModImpl(env, prim, args) ==
    LET f == args[1]
        g == args[2]
        n == f.sig.args
        e1 == PopK(env, 1)
        en == PopK(env, n)
        a == Top(env, 1)
        f_args == Popped(env, n)
        one == prim \in {"Dip", "Gap", "On", "By", "Both"}
        two == prim \in {"Bracket", "Fork"}
    IN  IF ~one /\ ~two THEN Fail(env, "NotSupported(" \o prim \o ")")
        ELSE IF Len(args) # (IF one THEN 1 ELSE 2) THEN Fail(env, "InterpreterBug")
        ELSE CASE prim = "Dip" -> PushE(node(e1, f.node), a)
               [] prim = "Gap" -> node(e1, f.node)
               [] prim = "On" -> PushE(node(PushE(e1, a), f.node), a)
               [] prim = "By" ->
                    IF ~Ok(en) THEN en
                    ELSE node(PushAll(PushAll(en,
                                IF n = 0 THEN <<>> ELSE <<f_args[n]>>),
                                Rev(f_args)), f.node)
               [] prim = "Both" ->
                    IF ~Ok(en) THEN en
                    ELSE node(PushAll(node(en, f.node), Rev(f_args)), f.node)
               [] prim = "Bracket" ->
                    IF ~Ok(en) THEN en
                    ELSE node(PushAll(node(en, g.node), Rev(f_args)), f.node)
               [] prim = "Fork" ->
                    IF ~Ok(en) THEN en
                    ELSE IF n > g.sig.args
                    THEN node(PushAll(node(PushAll(en,
                                SubSeq(Rev(f_args), 1, g.sig.args)),
                                g.node), f_args), f.node)
                    ELSE node(PushAll(node(PushAll(en, Rev(f_args)),
                                g.node), f_args), f.node)

\* AlgebraEnv::node_impl
node_impl(env, nd) ==
    CASE nd.op = "Run" -> RunAll(env, nd.args)
      [] nd.op = "Call" -> node(env, Asm(nd.prim))
      [] nd.op = "Push" -> PushImpl(env, nd.val)
      [] nd.op = "Prim" -> PrimImpl(env, nd.prim)
      [] nd.op = "ImplPrim" -> Fail(env, "NotSupported(" \o nd.prim \o ")")
      [] nd.op = "Mod" -> ModImpl(env, nd.prim, nd.args)
      [] nd.op = "ImplMod" -> Fail(env, "NotSupported(" \o nd.prim \o ")")
      [] nd.op = "CustomInverse" ->
            IF nd.prim = "obverse" THEN Fail(env, "NotSupported(custom inverses)")
            ELSE IF nd.prim = "normal" THEN node(env, nd.args[1].node)
            ELSE Fail(env, "NoInverse")
      [] nd.op \in {"CopyToUnder", "PushUnder", "PopUnder"} -> env
      [] OTHER -> Fail(env, "NotSupported(" \o nd.op \o ")")

\* AlgebraEnv::node
node(env, nd) ==
    IF ~Ok(env) THEN env
    ELSE LET has_span == nd.span # NoSpan
             e1 == IF has_span
                   THEN [env EXCEPT !.call_stack = Append(@, nd.span)]
                   ELSE env
             e2 == node_impl(e1, nd)
         IN  IF Ok(e2) /\ has_span
             THEN [e2 EXCEPT !.call_stack = SubSeq(@, 1, Len(@) - 1)]
             ELSE e2

\* AlgebraEnv::result with the two error arms exchanged
EnvResultSwapped(env) ==
    CASE Len(env.stack) = 0 -> [ok |-> FALSE, err |-> "TooManyOutputs", expr |-> <<>>]
      [] Len(env.stack) = 1 -> [ok |-> TRUE, err |-> "", expr |-> env.stack[1]]
      [] OTHER -> [ok |-> FALSE, err |-> "NoOutput", expr |-> <<>>]
\* AlgebraEnv::result
EnvResult(env) ==
    CASE Len(env.stack) = 0 -> [ok |-> FALSE, err |-> "NoOutput", expr |-> <<>>]
      [] Len(env.stack) = 1 -> [ok |-> TRUE, err |-> "", expr |-> env.stack[1]]
      [] OTHER -> [ok |-> FALSE, err |-> "TooManyOutputs", expr |-> <<>>]

\* the handled verdict of nodes_expr, on either of its two paths
HandledOf(env) ==
    env.handled >= 2 \/ \E i \in 1..Len(env.stack) : is_complex(env.stack[i])

\* nodes_expr, after its loop has run every node or stopped at a failing one
EnvData(env) ==
    IF ~Ok(env)
    THEN [expr |-> [ok |-> FALSE, err |-> env.err, expr |-> <<>>],
          handled |-> HandledOf(env), any_complex |-> env.any_complex]
    ELSE [expr |-> EnvResult(env),
          handled |-> HandledOf(env), any_complex |-> env.any_complex]
\* nodes_expr
nodes_expr(nodes) == EnvData(RunAll(NewEnv, nodes))

(***************************************************************************)
(* algebraic_inverse.  Its result is [kind, err, node]: kind "Ok" with the *)
(* emitted nodes in node, kind "ErrNone" for Err(None), kind "ErrSome"     *)
(* with the error in err for Err(Some(e)).  A Node built by                *)
(* Node::from_iter is the sequence of its nodes.                           *)
(***************************************************************************)
\* asm.spans.len() - 1
LastSpan == SpansLen - 1
\* the push closure: complex if any_complex, else the real part or NaN
PushConst(any_complex, x) ==
    IF any_complex THEN PushComplex(x) ELSE PushNum(IntoRealOrNaN(x))

X0 == Term(BaseX, R(0))
X1 == Term(BaseX, R(1))
X2 == Term(BaseX, R(2))
\* lines 35-39: c, b and a are removed from the map; a counts only if nonzero
CoefC(expr) == MapRemove(expr, X0).coef
CoefB(expr) == MapRemove(expr, X1).coef
HasA(expr) == MapRemove(expr, X2).found /\ ~CEq(MapRemove(expr, X2).coef, ZERO)
CoefA(expr) == MapRemove(expr, X2).coef
Leftover(expr) == MapRemove(MapRemove(MapRemove(expr, X0).rest, X1).rest, X2).rest

\* which closed form lines 54-103 select
InverseBranch(expr) ==
    LET b == CoefB(expr)
        c == CoefC(expr)
    IN  IF HasA(expr)
        THEN IF CEq(b, ZERO) THEN "QuadraticSimple" ELSE "QuadraticFull"
        ELSE IF CEq(b, ZERO) THEN "Constant"
        ELSE IF CEq(c, ZERO)
        THEN IF CEq(b, ONE) THEN "Identity"
             ELSE IF CAbsGt1(b) THEN "OriginDiv" ELSE "OriginMul"
        ELSE "Linear"

\* the IR of each closed form
QuadraticSimpleNode(ac, a, c) ==
    <<PushConst(ac, c), Prim("Sub", LastSpan), PushConst(ac, a),
      Prim("Div", LastSpan), Prim("Sqrt", LastSpan)>>
\* the full quadratic dividing by a where the code divides by 2a
QuadraticFullNodeHalf(ac, a, b, c) ==
    <<PushConst(ac, c), Prim("Flip", LastSpan), Prim("Sub", LastSpan),
      PushConst(ac, CMul(CReal(R(-4)), a)), Prim("Mul", LastSpan),
      PushConst(ac, CMul(b, b)), Prim("Add", LastSpan),
      Prim("Sqrt", LastSpan), Prim("Dup", LastSpan),
      PushConst(ac, b), Prim("Sub", LastSpan),
      Prim("Flip", LastSpan), Prim("Neg", LastSpan),
      PushConst(ac, b), Prim("Sub", LastSpan),
      Prim("Max", LastSpan),
      PushConst(ac, a), Prim("Div", LastSpan)>>
QuadraticFullNode(ac, a, b, c) ==
    <<PushConst(ac, c), Prim("Flip", LastSpan), Prim("Sub", LastSpan),
      PushConst(ac, CMul(CReal(R(-4)), a)), Prim("Mul", LastSpan),
      PushConst(ac, CMul(b, b)), Prim("Add", LastSpan),
      Prim("Sqrt", LastSpan), Prim("Dup", LastSpan),
      PushConst(ac, b), Prim("Sub", LastSpan),
      Prim("Flip", LastSpan), Prim("Neg", LastSpan),
      PushConst(ac, b), Prim("Sub", LastSpan),
      Prim("Max", LastSpan),
      PushConst(ac, CMul(CReal(R(2)), a)), Prim("Div", LastSpan)>>
\* the constant is pushed by Node::new_push(c), not by the push closure
ConstantNode(ac, c) == <<Prim("Pop", LastSpan), PushComplex(c)>>
\* the origin branch multiplying by b where the code multiplies by 1/b
LinearOriginNodeSwapped(ac, b) ==
    IF CEq(b, ONE) THEN <<Prim("Identity", LastSpan)>>
    ELSE IF CAbsGt1(b) THEN <<PushConst(ac, b), Prim("Div", LastSpan)>>
    ELSE <<PushConst(ac, b), Prim("Mul", LastSpan)>>
LinearOriginNode(ac, b) ==
    IF CEq(b, ONE) THEN <<Prim("Identity", LastSpan)>>
    ELSE IF CAbsGt1(b) THEN <<PushConst(ac, b), Prim("Div", LastSpan)>>
    ELSE <<PushConst(ac, CDiv(ONE, b)), Prim("Mul", LastSpan)>>
LinearNode(ac, b, c) ==
    <<PushConst(ac, c), Prim("Sub", LastSpan),
      PushConst(ac, b), Prim("Div", LastSpan)>>

InverseNode(ac, expr) ==
    LET a == CoefA(expr)
        b == CoefB(expr)
        c == CoefC(expr)
    IN  IF HasA(expr)
        THEN IF CEq(b, ZERO) THEN QuadraticSimpleNode(ac, a, c)
             ELSE QuadraticFullNode(ac, a, b, c)
        ELSE IF CEq(b, ZERO) THEN ConstantNode(ac, c)
        ELSE IF CEq(c, ZERO) THEN LinearOriginNode(ac, b)
        ELSE LinearNode(ac, b, c)

ResOk(nd) == [kind |-> "Ok", err |-> "", node |-> nd]
ErrNone == [kind |-> "ErrNone", err |-> "", node |-> <<>>]
ErrSome(e) == [kind |-> "ErrSome", err |-> e, node |-> <<>>]
\* derivative and integral return a plain AlgebraError
ResErr(e) == [kind |-> "Err", err |-> e, node |-> <<>>]

\* algebraic_inverse looking at the error before the handled verdict
InverseOfDataErrFirst(data) ==
    IF ~data.expr.ok THEN ErrSome(data.expr.err)
    ELSE IF ~data.handled THEN ErrNone
    ELSE IF Leftover(data.expr.expr) # <<>> THEN ErrSome("TooComplex")
    ELSE ResOk(InverseNode(data.any_complex, data.expr.expr))
\* algebraic_inverse, from the AlgebraData that nodes_expr returned
InverseOfData(data) ==
    IF ~data.handled THEN ErrNone
    ELSE IF ~data.expr.ok THEN ErrSome(data.expr.err)
    ELSE IF Leftover(data.expr.expr) # <<>> THEN ErrSome("TooComplex")
    ELSE ResOk(InverseNode(data.any_complex, data.expr.expr))
algebraic_inverse(nodes) == InverseOfData(nodes_expr(nodes))

(***************************************************************************)
(* expr_to_node, derivative, integral.                                     *)
(***************************************************************************)
\* SigNode::sig_node of straight-line IR: the stack effect of each node
RECURSIVE SigOf(_)
NodeSig(nd) ==
    CASE nd.op = "Push" -> Sig(0, 1)
      [] nd.op = "Prim" /\ nd.prim = "Pop" -> Sig(1, 0)
      [] nd.op = "Prim" /\ nd.prim \in {"Identity", "Neg", "Not", "Sqrt"} -> Sig(1, 1)
      [] nd.op = "Prim" /\ nd.prim = "Dup" -> Sig(1, 2)
      [] nd.op = "Prim" /\ nd.prim = "Flip" -> Sig(2, 2)
      [] nd.op = "Prim" /\ nd.prim = "Over" -> Sig(2, 3)
      [] nd.op = "Prim" -> Sig(2, 1)
      [] nd.op = "Mod" /\ nd.prim = "On" ->
            LET f == nd.args[1].sig
            IN  Sig(IF f.args < 1 THEN 1 ELSE f.args,
                    f.outputs + 1 + (IF f.args < 1 THEN 1 ELSE 0))
      [] nd.op = "Run" -> SigOf(nd.args)
      [] OTHER -> Sig(0, 0)
SigOf(nodes) ==
    IF nodes = <<>> THEN Sig(0, 0)
    ELSE LET s1 == SigOf(SubSeq(nodes, 1, Len(nodes) - 1))
             s2 == NodeSig(nodes[Len(nodes)])
             d == s2.args - s1.outputs
         IN  IF d > 0 THEN Sig(s1.args + d, s2.outputs)
             ELSE Sig(s1.args, s2.outputs - d)

RECURSIVE recur(_, _, _, _)
RECURSIVE RecurFrom(_, _, _, _, _)
\* the body of the for loop of recur for entry i (1-based here; the code's
\* enumerate index is i - 1)
RecurTerm(nd, en, i, any_complex, span) ==
    LET zero == CEq(en.coef, ZERO)
        n1 == IF zero
              THEN nd \o <<PushNum(R(0)), Prim("Mul", span)>>
              ELSE IF REq(en.power, R(0))
              THEN nd \o <<Prim("Pop", span), PushNum(R(1))>>
              ELSE LET n0 == IF en.base = BaseX
                             THEN IF i > 1
                                  THEN <<Mod("On", <<SigNode(Run(nd), SigOf(nd))>>, span)>>
                                  ELSE nd
                             ELSE recur(nd, en.base[1], any_complex, span)
                   IN  IF ~REq(en.power, R(1))
                       THEN n0 \o <<PushNum(en.power), Prim("Pow", span)>>
                       ELSE n0
        n2 == IF ~zero /\ ~CEq(en.coef, ONE)
              THEN n1 \o <<PushConst(any_complex, en.coef), Prim("Mul", span)>>
              ELSE n1
    IN  IF i > 1 THEN n2 \o <<Prim("Add", span)>> ELSE n2
RecurFrom(nd, expr, i, any_complex, span) ==
    IF i > Len(expr) THEN nd
    ELSE RecurFrom(RecurTerm(nd, expr[i], i, any_complex, span),
                   expr, i + 1, any_complex, span)
\* fn recur inside expr_to_node
recur(nd, expr, any_complex, span) == RecurFrom(nd, expr, 1, any_complex, span)
\* expr_to_node
expr_to_node(expr, any_complex) == recur(<<>>, expr, any_complex, LastSpan)

AllBaseX(expr) == \A i \in 1..Len(expr) : expr[i].base = BaseX
\* the loop of derivative: coef *= power, zero terms dropped, power -= 1
DerivExpr(expr) ==
    LET scaled == [i \in 1..Len(expr) |->
                     Entry(Term(expr[i].base, RSub(expr[i].power, R(1))),
                           CMul(expr[i].coef, CReal(expr[i].power)))]
        kept == SelectSeq(scaled, LAMBDA en : ~CEq(en.coef, ZERO))
        deriv == Collect(<<>>, kept)
    IN  IF deriv = <<>> THEN ExprFromComplex(ZERO) ELSE deriv
\* the loop of integral: power += 1, coef /= power
IntegExpr(expr) ==
    Collect(<<>>, [i \in 1..Len(expr) |->
        Entry(Term(expr[i].base, RAdd(expr[i].power, R(1))),
              CDiv(expr[i].coef, CReal(RAdd(expr[i].power, R(1)))))])
\* derivative, from the AlgebraData that nodes_expr returned
DerivativeOfData(data) ==
    IF ~data.expr.ok THEN ResErr(data.expr.err)
    ELSE IF ~AllBaseX(data.expr.expr) THEN ResErr("TooComplex")
    ELSE ResOk(expr_to_node(DerivExpr(data.expr.expr), data.any_complex))
derivative(nodes) == DerivativeOfData(nodes_expr(nodes))
\* integral, from the AlgebraData that nodes_expr returned
IntegralOfData(data) ==
    IF ~data.expr.ok THEN ResErr(data.expr.err)
    ELSE IF ~AllBaseX(data.expr.expr) THEN ResErr("TooComplex")
    ELSE ResOk(expr_to_node(IntegExpr(data.expr.expr), data.any_complex))
integral(nodes) == IntegralOfData(nodes_expr(nodes))

(***************************************************************************)
(* The host runtime on scalars, for running emitted IR: the stack is a     *)
(* sequence of Values (top at the end); a binary primitive pops a, then b, *)
(* and pushes b op a.  Two Nums give a Num, a Complex operand a Complex.   *)
(***************************************************************************)
IsNum(v) == v.kind = "Num"
RunBin(prim, b, a) ==
    IF IsNum(a) /\ IsNum(b)
    THEN NumVal(CASE prim = "Add" -> RAdd(b.data.re, a.data.re)
                  [] prim = "Sub" -> RSub(b.data.re, a.data.re)
                  [] prim = "Mul" -> RMul(b.data.re, a.data.re)
                  [] prim = "Div" -> RDiv(b.data.re, a.data.re)
                  [] prim = "Max" -> RMax(b.data.re, a.data.re)
                  [] prim = "Pow" -> IntoRealOrNaN(CPowf(b.data, a.data.re)))
    ELSE ComplexVal(CASE prim = "Add" -> CAdd(b.data, a.data)
                      [] prim = "Sub" -> CSub(b.data, a.data)
                      [] prim = "Mul" -> CMul(b.data, a.data)
                      [] prim = "Div" -> CDiv(b.data, a.data)
                      [] prim = "Max" ->
                            IF CCmp(b.data, a.data) < 0 THEN a.data ELSE b.data
                      [] prim = "Pow" -> CPowf(b.data, a.data.re))
RunUn(prim, a) ==
    IF IsNum(a)
    THEN NumVal(CASE prim = "Neg" -> RNeg(a.data.re)
                  [] prim = "Not" -> RSub(R(1), a.data.re)
                  [] prim = "Sqrt" -> RSqrt(a.data.re))
    ELSE ComplexVal(CASE prim = "Neg" -> CNeg(a.data)
                      [] prim = "Not" -> CSub(ONE, a.data)
                      [] prim = "Sqrt" -> CSqrt(a.data))

RECURSIVE RunIR(_, _)
RunUnder == [stack |-> <<>>, ok |-> FALSE]
RunNode(st, nd) ==
    LET n == Len(st.stack)
        a == st.stack[n]
        b == st.stack[n - 1]
        below1 == SubSeq(st.stack, 1, n - 1)
        below2 == SubSeq(st.stack, 1, n - 2)
        need == IF nd.op = "Push" THEN 0
                ELSE IF nd.op = "Mod" THEN 1
                ELSE NodeSig(nd).args
    IN  IF ~st.ok \/ n < need THEN RunUnder
        ELSE CASE nd.op = "Push" -> [st EXCEPT !.stack = Append(@, nd.val)]
               [] nd.op = "Run" -> RunIR(st, nd.args)
               [] nd.op = "Mod" /\ nd.prim = "On" ->
                    LET r == RunIR([st EXCEPT !.stack = below1 \o <<a>>],
                                   <<nd.args[1].node>>)
                    IN  IF r.ok THEN [r EXCEPT !.stack = Append(@, a)] ELSE r
               [] nd.op = "Prim" /\ nd.prim = "Identity" -> st
               [] nd.op = "Prim" /\ nd.prim = "Pop" -> [st EXCEPT !.stack = below1]
               [] nd.op = "Prim" /\ nd.prim = "Dup" ->
                    [st EXCEPT !.stack = Append(@, a)]
               [] nd.op = "Prim" /\ nd.prim = "Flip" ->
                    [st EXCEPT !.stack = below2 \o <<a, b>>]
               [] nd.op = "Prim" /\ nd.prim = "Over" ->
                    [st EXCEPT !.stack = below2 \o <<b, a, b>>]
               [] nd.op = "Prim" /\ nd.prim \in {"Neg", "Not", "Sqrt"} ->
                    [st EXCEPT !.stack = Append(below1, RunUn(nd.prim, a))]
               [] nd.op = "Prim"
                    /\ nd.prim \in {"Add", "Sub", "Mul", "Div", "Max", "Pow"} ->
                    [st EXCEPT !.stack = Append(below2, RunBin(nd.prim, b, a))]
               [] OTHER -> RunUnder
\* the nodes run in order on the stack
RunIR(st, nodes) ==
    IF ~st.ok \/ nodes = <<>> THEN st
    ELSE RunIR(RunNode(st, nodes[1]), Tail(nodes))
\* the emitted IR run on a stack that holds y alone
RunOn(y, nodes) == RunIR([stack |-> <<y>>, ok |-> TRUE], nodes)

\* a*x^2 + b*x + c of an Expr whose terms are X^0, X^1 and X^2
PolyAt(expr, x) ==
    CAdd(CAdd(CMul(CoefA(expr), CMul(x, x)), CMul(CoefB(expr), x)), CoefC(expr))

\* the sum over the terms of coefficient * x^power, of an Expr over X
RECURSIVE ExprAt(_, _)
ExprAt(expr, x) ==
    IF expr = <<>> THEN ZERO
    ELSE CAdd(CMul(expr[1].coef, CPowf(x, expr[1].power)), ExprAt(Tail(expr), x))
\* a value that lies below x on the stack the lowered IR is run on
Below1 == NumVal(R(7))

(***************************************************************************)
(* The programs the analyser is fed.  A program is either generated node   *)
(* by node from Alphabet, up to MaxNodes nodes, or one of Scripts.         *)
(***************************************************************************)
P(prim) == Prim(prim, 0)
F(nodes, args, outputs) == SigNode(Run(nodes), Sig(args, outputs))

ShufflePrims == {"Identity", "Pop", "Dup", "Flip", "Over"}
ArithPrims == {"Neg", "Not", "Sqrt", "Add", "Sub", "Mul", "Div", "Pow", "Log"}
\* the ten primitives the handled counter is documented to count
CountedPrims == ArithPrims \cup {"Complex"}

Alphabet ==
    {P(p) : p \in ShufflePrims \cup CountedPrims \cup {"Max"}}
    \cup {PushNum(R(2)), PushNum(R(-4)), PushComplex(CI),
          Push(Value("Byte", 0, CReal(R(3)))),
          Push(Value("Num", 1, CReal(R(1)))),
          Push(Value("Char", 0, ZERO))}
    \cup {Mod("Dip", <<F(<<PushNum(R(2))>>, 0, 1)>>, 0),
          Mod("Gap", <<F(<<PushNum(R(2))>>, 0, 1)>>, 0),
          Mod("On", <<F(<<P("Neg")>>, 1, 1)>>, 0),
          Mod("By", <<F(<<P("Mul")>>, 2, 1)>>, 0),
          Mod("By", <<F(<<P("Neg")>>, 1, 1)>>, 0),
          Mod("Both", <<F(<<P("Neg")>>, 1, 1)>>, 0),
          Mod("Bracket", <<F(<<P("Neg")>>, 1, 1), F(<<P("Sqrt")>>, 1, 1)>>, 0),
          Mod("Fork", <<F(<<P("Sub")>>, 2, 1), F(<<P("Neg")>>, 1, 1)>>, 0),
          Mod("Fork", <<F(<<P("Neg")>>, 1, 1), F(<<P("Add")>>, 2, 1)>>, 0),
          Mod("Fork", <<F(<<P("Sub")>>, 2, 1), F(<<P("Add")>>, 2, 1)>>, 0),
          Mod("Dip", <<>>, 0),
          Mod("Rows", <<F(<<P("Neg")>>, 1, 1)>>, 0)}
    \cup {MkNode("ImplPrim", "UnPop", NoVal, <<>>, 0),
          MkNode("ImplMod", "UnBoth", NoVal, <<>>, 0),
          MkNode("CustomInverse", "obverse", NoVal, <<>>, 0),
          MkNode("CustomInverse", "normal", NoVal, <<F(<<P("Neg")>>, 1, 1)>>, 0),
          MkNode("CustomInverse", "none", NoVal, <<>>, 0),
          MkNode("CopyToUnder", "", NoVal, <<>>, 0),
          MkNode("PushUnder", "", NoVal, <<>>, 0),
          MkNode("PopUnder", "", NoVal, <<>>, 0),
          MkNode("Call", "negate", NoVal, <<>>, 0),
          MkNode("Call", "square", NoVal, <<>>, 0),
          Run(<<P("Dup"), P("Add")>>),
          MkNode("Array", "", NoVal, <<>>, 0)}

\* the coefficients of the scripted polynomials
Halves(n) == {Rat(k, d) : k \in -n..n, d \in {1, 2}}
CoefsB == {R(-2), R(-1), Rat(-1, 2), R(0), Rat(1, 2), R(1), R(2), R(6)}
CoefsC == {R(-3), R(0), R(1)}
CoefsA == {R(-1), R(1), R(4), Rat(1, 2)}
\* b*x + c
LinearProg(b, c) == <<PushNum(b), P("Mul"), PushNum(c), P("Add")>>
\* a*x^2 + b*x + c
QuadraticProg(a, b, c) ==
    <<P("Dup"), P("Dup"), P("Mul"), PushNum(a), P("Mul"), P("Flip"),
      PushNum(b), P("Mul"), P("Add"), PushNum(c), P("Add")>>
\* scenario 3 of the specification, as written there
Scenario3 ==
    <<P("Dup"), P("Mul"), PushNum(R(4)), P("Mul"), PushNum(R(3)), P("Sub"),
      P("Over"), PushNum(R(6)), P("Mul"), P("Add")>>
\* 4x^2 + 6x - 3 with x kept below: Dup first, Flip in place of Over
Scenario3Kept ==
    <<P("Dup"), P("Dup"), P("Mul"), PushNum(R(4)), P("Mul"), PushNum(R(3)),
      P("Sub"), P("Flip"), PushNum(R(6)), P("Mul"), P("Add")>>
\* x + (x^3 - x^3) and x + (x^2 - x^2): a zero coefficient stays in the map
CubeCancel ==
    <<P("Dup"), P("Dup"), P("Dup"), P("Mul"), P("Mul"), P("Dup"), P("Sub"),
      P("Add")>>
SquareCancel ==
    <<P("Dup"), P("Dup"), P("Mul"), P("Dup"), P("Sub"), P("Add")>>
\* x^2 + 3x + 5, and 2 as a constant program
PolyProg ==
    <<P("Dup"), P("Dup"), P("Mul"), P("Flip"), PushNum(R(3)), P("Mul"),
      P("Add"), PushNum(R(5)), P("Add")>>
ConstProg == <<P("Pop"), PushNum(R(2)), PushNum(R(1)), P("Mul")>>
\* complex coefficients: with a complex literal, and from the root of -4
ComplexLinear(c) == <<PushComplex(Cx(R(2), R(0))), P("Mul"), PushNum(c), P("Add")>>
ComplexQuadratic(b) ==
    <<P("Dup"), P("Dup"), P("Mul"), PushComplex(Cx(R(1), R(0))), P("Mul"),
      P("Flip"), PushNum(b), P("Mul"), P("Add"), PushNum(R(1)), P("Add")>>
ComplexConst == <<P("Pop"), PushComplex(Cx(R(2), R(1))), PushNum(R(1)), P("Mul")>>
ImaginarySlope == <<PushNum(R(-4)), P("Sqrt"), P("Mul"), PushNum(R(0)), P("Add")>>
\* x + 1/x: its derivative -x^-2 + 1 has the power-0 term last in key order
InverseSum == <<P("Dup"), PushNum(R(1)), P("Flip"), P("Div"), P("Add")>>
\* x times the root of x + 1, the root negated or not, on either side of Mul
NestedProduct(neg, flip) ==
    <<P("Dup"), PushNum(R(1)), P("Add"), P("Sqrt")>>
        \o (IF neg THEN <<P("Neg")>> ELSE <<>>)
        \o (IF flip THEN <<P("Flip")>> ELSE <<>>)
        \o <<P("Mul")>>

Scripts ==
    {LinearProg(b, c) : b \in CoefsB, c \in CoefsC}
    \cup {QuadraticProg(a, b, c) : a \in CoefsA, b \in {R(0), R(2), R(6), R(-2)},
                                   c \in {R(0), R(-3)}}
    \cup {ComplexLinear(c) : c \in {R(0), R(1)}}
    \cup {ComplexQuadratic(b) : b \in {R(0), R(2)}}
    \cup {NestedProduct(neg, flip) : neg \in BOOLEAN, flip \in BOOLEAN}
    \cup {Scenario3, Scenario3Kept, CubeCancel, SquareCancel, PolyProg,
          ConstProg, ComplexConst, ImaginarySlope, InverseSum}

\* the inputs x the emitted IR is tried on
Xs == Halves(MaxX)

(***************************************************************************)
(* The state machine.                                                      *)
(***************************************************************************)
VARIABLES
    script,     \* the scripted program, <<>> when it is generated from Alphabet
    nodes,      \* the nodes the loop of nodes_expr has visited
    env,        \* the AlgebraEnv of that loop
    pc,         \* "run", or the public function that has returned
    out,        \* what that function returned
    trip        \* the round trip made with what it returned

vars == <<script, nodes, env, pc, out, trip>>

NoTrip == [x |-> ZERO, y |-> ZERO, back |-> RunUnder, res |-> ErrNone]

Init ==
    /\ script \in Scripts \cup {<<>>}
    /\ nodes = <<>>
    /\ env = NewEnv
    /\ pc = "run"
    /\ out = ErrNone
    /\ trip = NoTrip

\* every coefficient the environment holds is a rational
Representable(e) == \A i \in 1..Len(e.stack) : ExprFinite(e.stack[i])

NextNodes ==
    IF script = <<>>
    THEN IF Len(nodes) < MaxNodes THEN Alphabet ELSE {}
    ELSE IF Len(nodes) < Len(script) THEN {script[Len(nodes) + 1]} ELSE {}

\* one turn of the loop of nodes_expr: env.node(node)
Step ==
    /\ pc = "run"
    /\ Ok(env)
    /\ \E nd \in NextNodes :
        /\ Representable(node(env, nd))
        /\ env' = node(env, nd)
        /\ nodes' = Append(nodes, nd)
    /\ UNCHANGED <<script, pc, out, trip>>

\* the loop has ended: a node failed, or the program has no further node
Stopped == ~Ok(env) \/ script = <<>> \/ Len(nodes) = Len(script)

\* algebraic_inverse returns
AlgebraicInverse ==
    /\ pc = "run"
    /\ Stopped
    /\ out' = InverseOfData(EnvData(env))
    /\ pc' = "inverse"
    /\ UNCHANGED <<script, nodes, env, trip>>

\* derivative returns
Derivative ==
    /\ pc = "run"
    /\ Stopped
    /\ out' = DerivativeOfData(EnvData(env))
    /\ pc' = "derivative"
    /\ UNCHANGED <<script, nodes, env, trip>>

IntegralFinite(data) == data.expr.ok => ExprFinite(IntegExpr(data.expr.expr))
\* integral returns
Integral ==
    /\ pc = "run"
    /\ Stopped
    /\ IntegralFinite(EnvData(env))
    /\ out' = IntegralOfData(EnvData(env))
    /\ pc' = "integral"
    /\ UNCHANGED <<script, nodes, env, trip>>

\* the analysed expression has real coefficients only
RealExpr(expr) == \A i \in 1..Len(expr) : IsRealC(expr[i].coef)
TheExpr == EnvData(env).expr.expr

\* the forward value y = f(x) is put on the stack and the emitted inverse run
RunInverse ==
    /\ pc = "inverse"
    /\ out.kind = "Ok"
    /\ RealExpr(TheExpr)
    /\ \E x \in Xs :
        LET y == PolyAt(TheExpr, CReal(x))
        IN  trip' = [x |-> CReal(x), y |-> y,
                     back |-> RunOn(NumVal(y.re), out.node), res |-> ErrNone]
    /\ pc' = "trip"
    /\ UNCHANGED <<script, nodes, env, out>>

\* the IR integral returned is handed to derivative
DerivativeOfIntegral ==
    /\ pc = "integral"
    /\ out.kind = "Ok"
    /\ Representable(RunAll(NewEnv, out.node))
    /\ trip' = [NoTrip EXCEPT !.res = derivative(out.node)]
    /\ pc' = "deriv_integral"
    /\ UNCHANGED <<script, nodes, env, out>>

\* the expression that derivative or integral handed to expr_to_node
Lowered == IF pc = "derivative" THEN DerivExpr(TheExpr) ELSE IntegExpr(TheExpr)
\* the IR that derivative or integral returned is run on a stack with x on top
RunLowered ==
    /\ pc \in {"derivative", "integral"}
    /\ out.kind = "Ok"
    /\ RealExpr(Lowered)
    /\ \A i \in 1..Len(Lowered) :
            IsInt(Lowered[i].power) /\ Abs(Lowered[i].power[1]) <= MaxPower
    /\ \E x \in Xs :
        /\ CFinite(ExprAt(Lowered, CReal(x)))
        /\ trip' = [x |-> CReal(x), y |-> ExprAt(Lowered, CReal(x)),
                    back |-> RunIR([stack |-> <<Below1, NumVal(x)>>, ok |-> TRUE],
                                   out.node),
                    res |-> ErrNone]
    /\ pc' = "lowered"
    /\ UNCHANGED <<script, nodes, env, out>>

Next ==
    \/ Step
    \/ AlgebraicInverse
    \/ Derivative
    \/ Integral
    \/ RunInverse
    \/ DerivativeOfIntegral
    \/ RunLowered

Spec == Init /\ [][Next]_vars

(***************************************************************************)
(* Helpers of the properties.                                              *)
(***************************************************************************)
Data == EnvData(env)
LastNode == nodes[Len(nodes)]
\* the value the emitted IR left, when it left exactly one
BackIs(c) ==
    /\ trip.back.ok
    /\ Len(trip.back.stack) = 1
    /\ CEq(trip.back.stack[1].data, c)
LinearBranches == {"Identity", "OriginDiv", "OriginMul", "Linear"}
QuadraticBranches == {"QuadraticSimple", "QuadraticFull"}
\* a polynomial over X: non-negative integer powers of X only
IsPoly(expr) ==
    \A i \in 1..Len(expr) :
        expr[i].base = BaseX /\ IsInt(expr[i].power) /\ expr[i].power[1] >= 0
CoefAt(expr, term) == MapRemove(expr, term).coef
\* e1 and e2 agree on every term, an absent term counting as zero
SameTerms(e1, e2) ==
    /\ \A i \in 1..Len(e1) : CEq(CoefAt(e2, TermOf(e1[i])), e1[i].coef)
    /\ \A i \in 1..Len(e2) : CEq(CoefAt(e1, TermOf(e2[i])), e2[i].coef)
\* the entries with a zero coefficient dropped
Prune(expr) == SelectSeq(expr, LAMBDA en : ~CEq(en.coef, ZERO))

(***************************************************************************)
(* C1.  Linear round trip: when the program is analysed to b*x + c with    *)
(* real b # 0 and c, the IR algebraic_inverse returns, run on y = b*x + c, *)
(* leaves x, in each of the branches Identity, push b Div, push 1/b Mul    *)
(* and push c Sub push b Div.                                              *)
(***************************************************************************)
C1_LinearRoundTrip ==
    (pc = "trip" /\ InverseBranch(TheExpr) \in LinearBranches)
        => BackIs(trip.x)

C1_Witness ==
    /\ pc = "trip"
    /\ InverseBranch(TheExpr) = "OriginMul"
    /\ CoefB(TheExpr) = CReal(Rat(1, 2))
    /\ trip.x = CReal(R(3))
    /\ BackIs(trip.x)

(***************************************************************************)
(* C2.  Quadratic identity: when the program is analysed to                *)
(* a*x^2 + b*x + c with a # 0, the IR algebraic_inverse returns, run on    *)
(* y = a*x^2 + b*x + c, leaves x for every x >= -b/(2a), for both signs of *)
(* a and in both quadratic branches.                                       *)
(***************************************************************************)
C2_QuadraticIdentity ==
    (/\ pc = "trip"
     /\ InverseBranch(TheExpr) \in QuadraticBranches
     /\ RLe(RDiv(RNeg(CoefB(TheExpr).re), RMul(R(2), CoefA(TheExpr).re)),
            trip.x.re))
        => BackIs(trip.x)

(***************************************************************************)
(* C3.  Handled classification: a node sequence made only of the shuffles  *)
(* Identity, Pop, Dup, Flip and Over is reported handled = false, and one  *)
(* that contains an arithmetic primitive is reported handled = true.       *)
(***************************************************************************)
C3_HandledClassification ==
    (pc = "run" /\ nodes # <<>>) =>
        /\ (\A i \in 1..Len(nodes) :
                nodes[i].op = "Prim" /\ nodes[i].prim \in ShufflePrims)
            => ~Data.handled
        /\ (\E i \in 1..Len(nodes) :
                nodes[i].op = "Prim" /\ nodes[i].prim \in ArithPrims)
            => Data.handled

(***************************************************************************)
(* C4.  Outcome of algebraic_inverse: Err(None) when the analysis was not  *)
(* handled, whether or not it failed; Err(Some(e)) with the analysis's own *)
(* error e when it was handled and failed; Ok only when it was handled and *)
(* left exactly one expression; nothing is emitted beside an error.        *)
(***************************************************************************)
AnalysisError ==
    IF ~Ok(env) THEN env.err
    ELSE IF Len(env.stack) = 0 THEN "NoOutput"
    ELSE IF Len(env.stack) > 1 THEN "TooManyOutputs"
    ELSE ""
C4_InverseOutcome ==
    pc = "inverse" =>
        /\ ~HandledOf(env) => out.kind = "ErrNone"
        /\ (HandledOf(env) /\ AnalysisError # "")
            => (out.kind = "ErrSome" /\ out.err = AnalysisError)
        /\ out.kind = "Ok" => (HandledOf(env) /\ Ok(env) /\ Len(env.stack) = 1)
        /\ out.kind # "Ok" => out.node = <<>>

C4_Witness ==
    /\ pc = "inverse"
    /\ HandledOf(env)
    /\ ~Ok(env)
    /\ env.err = "NonScalar"
    /\ out = ErrSome("NonScalar")

(***************************************************************************)
(* C5.  Derivative-integral round trip: for a polynomial p over X, the IR  *)
(* integral returns, handed to derivative, yields IR that is analysed to   *)
(* p again, every term c * X^p with the same coefficient.                  *)
(***************************************************************************)
C5_DerivativeOfIntegral ==
    (pc = "deriv_integral" /\ IsPoly(TheExpr) /\ RealExpr(TheExpr)) =>
        /\ trip.res.kind = "Ok"
        /\ nodes_expr(trip.res.node).expr.ok
        /\ SameTerms(nodes_expr(trip.res.node).expr.expr, TheExpr)

(***************************************************************************)
(* C6.  Result extraction: once every node has run without error, the     *)
(* result is decided by the depth of the stack alone: NoOutput at depth 0, *)
(* TooManyOutputs above 1, the single expression at depth 1.  A pop on an  *)
(* empty stack gives TooManyVariables.                                     *)
(***************************************************************************)
\* how many values a primitive pops
Pops(prim) == IF prim \in {"Identity", "Pop", "Dup", "Neg", "Not", "Sqrt"}
              THEN 1 ELSE 2
C6_Extraction ==
    (pc = "derivative" /\ Ok(env)) =>
        /\ Len(env.stack) = 0 => out = ResErr("NoOutput")
        /\ Len(env.stack) > 1 => out = ResErr("TooManyOutputs")
        /\ Len(env.stack) = 1 =>
            IF AllBaseX(env.stack[1])
            THEN out = ResOk(expr_to_node(DerivExpr(env.stack[1]), env.any_complex))
            ELSE out = ResErr("TooComplex")
C6_PopEmpty ==
    IF Len(nodes') = Len(nodes) + 1
    THEN (/\ nodes'[Len(nodes')].op = "Prim"
          /\ nodes'[Len(nodes')].prim \in ShufflePrims \cup CountedPrims
          /\ Len(env.stack) < Pops(nodes'[Len(nodes')].prim))
            => (env'.err = "TooManyVariables" /\ env'.stack = <<>>)
    ELSE TRUE
C6_ResultExtraction == [](C6_Extraction) /\ [][C6_PopEmpty]_vars

C6_Witness ==
    /\ pc = "derivative"
    /\ Ok(env)
    /\ Len(env.stack) = 3
    /\ out = ResErr("TooManyOutputs")

(***************************************************************************)
(* C7.  Every constant algebraic_inverse emits, in every branch, is pushed *)
(* as a complex value if and only if any_complex was set, and as a real    *)
(* number otherwise.                                                       *)
(***************************************************************************)
C7_ConstantsFollowAnyComplex ==
    (pc = "inverse" /\ out.kind = "Ok") =>
        \A i \in 1..Len(out.node) :
            out.node[i].op = "Push" =>
                (out.node[i].val.kind = "Complex" <=> env.any_complex)

(***************************************************************************)
(* C8.  A zero coefficient is treated as absent: algebraic_inverse gives   *)
(* the same outcome for an expression with an extra entry t -> 0 as for    *)
(* the expression without it; x^3 - x^3 + x is inverted as x.              *)
(***************************************************************************)
C8_ZeroCoefficientAbsent ==
    (pc = "inverse" /\ Ok(env) /\ Len(env.stack) = 1 /\ IsPoly(TheExpr)) =>
        out = InverseOfData([Data EXCEPT !.expr.expr = Prune(@)])

(***************************************************************************)
(* C9.  Scenario 3: Dup, Mul, Push 4, Mul, Push 3, Sub, Over, Push 6, Mul, *)
(* Add is analysed without error to 4x^2 + 6x - 3, algebraic_inverse takes *)
(* the full-quadratic branch, and the emitted IR run on y = 7 leaves 1.    *)
(***************************************************************************)
Poly463 ==
    <<Entry(X0, CReal(R(-3))), Entry(X1, CReal(R(6))), Entry(X2, CReal(R(4)))>>
C9_Scenario3 ==
    /\ (script = Scenario3 /\ pc = "inverse") =>
        /\ nodes = Scenario3
        /\ Ok(env)
        /\ env.stack = <<Poly463>>
        /\ out.kind = "Ok"
        /\ InverseBranch(TheExpr) = "QuadraticFull"
    /\ (script = Scenario3 /\ pc = "trip" /\ trip.y = CReal(R(7))) =>
        BackIs(CReal(R(1)))

(***************************************************************************)
(* C9, amended.  Scenario 3 as written stops at Over, its seventh node,    *)
(* with TooManyVariables: the stack holds 4x^2 - 3 alone, and              *)
(* algebraic_inverse returns Err(Some(TooManyVariables)).  With x kept     *)
(* below (Dup, Dup, Mul, Push 4, Mul, Push 3, Sub, Flip, Push 6, Mul, Add) *)
(* the analysis gives 4x^2 + 6x - 3 without error, algebraic_inverse takes *)
(* the full-quadratic branch, and the emitted IR run on y = 7 leaves 1.    *)
(***************************************************************************)
C9_Scenario3Amended ==
    /\ (script = Scenario3 /\ pc = "inverse") =>
        /\ nodes = SubSeq(Scenario3, 1, 7)
        /\ env.err = "TooManyVariables"
        /\ out = ErrSome("TooManyVariables")
    /\ (script = Scenario3Kept /\ pc # "run") =>
        /\ nodes = Scenario3Kept
        /\ Ok(env)
        /\ env.stack = <<Poly463>>
    /\ (script = Scenario3Kept /\ pc = "inverse") =>
        /\ out.kind = "Ok"
        /\ InverseBranch(TheExpr) = "QuadraticFull"
    /\ (script = Scenario3Kept /\ pc = "trip" /\ trip.y = CReal(R(7))) =>
        BackIs(CReal(R(1)))

C9_Witness ==
    /\ script = Scenario3Kept
    /\ pc = "trip"
    /\ trip.y = CReal(R(7))
    /\ BackIs(CReal(R(1)))

(***************************************************************************)
(* C10.  The handled counter goes up by exactly one each time one of Neg,  *)
(* Not, Sqrt, Add, Sub, Mul, Div, Pow, Log or Complex executes with        *)
(* success, and is left unchanged by every other node.                     *)
(***************************************************************************)
\* the counted primitives a node executes when it succeeds on this stack
IsPlain(nd) ==
    nd.op \in {"Prim", "Push", "CopyToUnder", "PushUnder", "PopUnder"}
C10_Counted(nd) ==
    IF nd.op = "Prim" /\ nd.prim \in CountedPrims THEN 1 ELSE 0
C10_Step ==
    IF Len(nodes') = Len(nodes) + 1
    THEN (IsPlain(nodes'[Len(nodes')]) /\ Ok(env'))
            => env'.handled = env.handled + C10_Counted(nodes'[Len(nodes')])
    ELSE TRUE
C10_HandledCounter == [][C10_Step]_vars


(***************************************************************************)
(* C11.  Multiplication table, mixed case: the product of a term (X, ca)   *)
(* with a nested term (Expr(e), cb) has, for each entry (t, c) of e, the   *)
(* term (t.base, t.power + ta.power) with coefficient ca*c*cb, on either   *)
(* side of the multiplication; so x times -1 * Expr(x + 1)^0.5 has the     *)
(* coefficients of -(x^2 + x).                                             *)
(***************************************************************************)
\* the environment before the last node ran
Prev == RunAll(NewEnv, SubSeq(nodes, 1, Len(nodes) - 1))
\* the row "X x Expr(e)" of the table, with the outer coefficient cb
C11_Row(ex, en) ==
    AddAll(<<>>, [i \in 1..Len(en.base[1]) |->
        Entry(Term(en.base[1][i].base, RAdd(en.base[1][i].power, ex.power)),
              CMul(CMul(ex.coef, en.base[1][i].coef), en.coef))])
C11_IsX(e) == Len(e) = 1 /\ e[1].base = BaseX
C11_IsNested(e) == Len(e) = 1 /\ e[1].base # BaseX
MinusXSquaredPlusX ==
    <<Entry(Term(BaseX, R(1)), CReal(R(-1))), Entry(Term(BaseX, R(2)), CReal(R(-1)))>>
C11_MixedProduct ==
    IF nodes # <<>> /\ Ok(env)
    THEN IF LastNode = P("Mul") /\ Len(Prev.stack) >= 2
         THEN /\ (C11_IsX(Top(Prev, 2)) /\ C11_IsNested(Top(Prev, 1)))
                    => Top(env, 1) = C11_Row(Top(Prev, 2)[1], Top(Prev, 1)[1])
              /\ (C11_IsNested(Top(Prev, 2)) /\ C11_IsX(Top(Prev, 1)))
                    => Top(env, 1) = C11_Row(Top(Prev, 1)[1], Top(Prev, 2)[1])
              /\ nodes = NestedProduct(TRUE, FALSE)
                    => SameTerms(Top(env, 1), MinusXSquaredPlusX)
         ELSE TRUE
    ELSE TRUE

(***************************************************************************)
(* C12.  Fork(f, g) pops max(f.sig.args, g.sig.args) values, runs g first  *)
(* on the values nearest the top of the stack (the top min(f.sig.args,     *)
(* g.sig.args) of those popped when f takes more than g), then runs f on   *)
(* all f.sig.args of its arguments; for both orderings of the two          *)
(* arities.  The order in which f sees its arguments is the matter of C14: *)
(* here they are pushed back as the interpreter pushes them.               *)
(***************************************************************************)
C12_Max(a, b) == IF a > b THEN a ELSE b
C12_Fork(e, f, g) ==
    LET m == C12_Max(f.sig.args, g.sig.args)
        em == PopK(e, m)
        vals == Popped(e, m)
    IN  IF ~Ok(em) THEN em
        ELSE node(PushAll(node(PushAll(em, Rev(SubSeq(vals, 1, g.sig.args))),
                               g.node),
                          SubSeq(vals, 1, f.sig.args)),
                  f.node)
C12_IsFork(nd) == nd.op = "Mod" /\ nd.prim = "Fork" /\ Len(nd.args) = 2
C12_ForkArguments ==
    IF nodes # <<>>
    THEN C12_IsFork(LastNode) =>
            LET r == C12_Fork(Prev, LastNode.args[1], LastNode.args[2])
            IN  env.stack = r.stack /\ env.err = r.err
    ELSE TRUE

(***************************************************************************)
(* C14.  When Fork(f, g) runs with f.sig.args >= 2, f sees its arguments   *)
(* in the order they had on the stack before the Fork, as Both and Bracket *)
(* restore theirs: on the stack [x, 3] Fork(Sub, Add) leaves x + 3 below   *)
(* and x - 3 on top, the x - 3 that a plain Sub gives on that stack.       *)
(***************************************************************************)
\* Fork with the arguments of f restored as Bracket restores them
C14_Fork(e, f, g) ==
    LET n == f.sig.args
        en == PopK(e, n)
        f_args == Popped(e, n)
    IN  IF ~Ok(en) THEN en
        ELSE node(PushAll(node(PushAll(en,
                    IF n > g.sig.args
                    THEN SubSeq(Rev(f_args), 1, g.sig.args)
                    ELSE Rev(f_args)), g.node), Rev(f_args)), f.node)
ForkSubAdd == Mod("Fork", <<F(<<P("Sub")>>, 2, 1), F(<<P("Add")>>, 2, 1)>>, 0)
PushThree == Push(Value("Byte", 0, CReal(R(3))))
C14_ForkKeepsOrder ==
    IF nodes # <<>>
    THEN /\ (C12_IsFork(LastNode) /\ LastNode.args[1].sig.args >= 2) =>
                LET r == C14_Fork(Prev, LastNode.args[1], LastNode.args[2])
                IN  env.stack = r.stack /\ env.err = r.err
         /\ nodes = <<PushThree, ForkSubAdd>> =>
                /\ Ok(env)
                /\ env.stack = <<ExprAdd(ExprX, ExprFromComplex(CReal(R(3)))),
                                 ExprSub(ExprX, ExprFromComplex(CReal(R(3))))>>
                /\ Top(env, 1) = Top(node(Prev, P("Sub")), 1)
    ELSE TRUE

(***************************************************************************)
(* C13.  Lowering keeps stack discipline and value: for every Expr whose   *)
(* terms all have base X, the IR of expr_to_node, run on a stack whose top *)
(* is x, pops nothing below x and ends with exactly one value in the place *)
(* of x, the sum over the terms of coefficient * x^power; wherever the     *)
(* zero-coefficient term or the power-0 term falls in key order.           *)
(***************************************************************************)
C13_LoweringKeepsStack ==
    pc = "lowered" =>
        /\ trip.back.ok
        /\ Len(trip.back.stack) = 2
        /\ trip.back.stack[1] = Below1
        /\ CEq(trip.back.stack[2].data, trip.y)

(***************************************************************************)
(* C15.  A node that fails with TooManyVariables, the stack holding fewer  *)
(* entries than it pops, leaves the symbolic stack as it was before the    *)
(* node started: the handled verdict computed after the failure is the     *)
(* verdict just before the failing node, and algebraic_inverse chooses     *)
(* between Err(None) and Err(Some(TooManyVariables)) by that verdict,      *)
(* whatever the failing node had already popped.                           *)
(***************************************************************************)
C15_FailureKeepsStack ==
    IF nodes # <<>>
    THEN env.err = "TooManyVariables" =>
            /\ env.stack = Prev.stack
            /\ HandledOf(env) = HandledOf(Prev)
            /\ pc = "inverse" =>
                    out = (IF HandledOf(Prev) THEN ErrSome("TooManyVariables")
                           ELSE ErrNone)
    ELSE TRUE

=============================================================================
